---- MODULE Spec2Model ----
(***************************************************************************)
(* The registration archival pipeline of website/archiver/tasks.py: the    *)
(* celery tasks archive, stat_addon, archive_node, archive_addon and       *)
(* make_copy_request, and the failure hook ArchiverTask.on_failure, over   *)
(* one ArchiveJob.  A task is one action per stretch of code between two   *)
(* network calls; tasks of different addons interleave freely, as they do  *)
(* on independent workers.  Every task message is executed once            *)
(* (max_retries = 0, plain .delay()/chord scheduling).                     *)
(* A second, separate part models Preprint.set_published and               *)
(* Preprint.set_permissions of osf/models/preprint.py (SpecPreprint).       *)
(***************************************************************************)
EXTENDS Integers, Sequences, FiniteSets, TLC

\* ---------------------------------------------------------------- bounds
\* Addons attached to the source project are 1..NumAddons.
NumAddons == 2
\* A non-empty addon holds one file of 1..MaxDiskUsage bytes.
MaxDiskUsage == 2
\* settings.MAX_ARCHIVE_SIZE, scaled to the sizes above.
MAX_ARCHIVE_SIZE == 2

Addons == 1..NumAddons

\* ------------------------------------------------------- status constants
ARCHIVER_PENDING == "PENDING"
ARCHIVER_CHECKING == "CHECKING"
ARCHIVER_SUCCESS == "SUCCESS"
ARCHIVER_FAILURE == "FAILURE"
ARCHIVER_SENDING == "SENDING"
ARCHIVER_SENT == "SENT"
ARCHIVER_SIZE_EXCEEDED == "SIZE_EXCEEDED"
ARCHIVER_NETWORK_ERROR == "NETWORK_ERROR"
ARCHIVER_UNCAUGHT_ERROR == "UNCAUGHT_ERROR"

\* The failure-class statuses: the three of the failure classifier and the
\* plain FAILURE make_copy_request records.
ARCHIVER_FAILURE_STATUSES ==
  {ARCHIVER_FAILURE, ARCHIVER_SIZE_EXCEEDED, ARCHIVER_NETWORK_ERROR,
   ARCHIVER_UNCAUGHT_ERROR}

\* What the copy endpoint may answer: a status code, or no response at all
\* (requests.post raises).
StatusCodes == {200, 201, 202, 204, 404, 500}
NoResponse == [status_code |-> 0]

\* dst.archive_status as long as no failure hook has written it.
NotArchived == "unset"

\* The file trees a source addon may hold: empty, or one file of some size.
FileTrees ==
  {[num_files |-> 0, disk_usage |-> 0]}
    \cup {[num_files |-> 1, disk_usage |-> s] : s \in 1..MaxDiskUsage}

VARIABLES
  file_tree,          \* addon -> the file tree of the source addon
  target_addons,      \* target name -> [status, errors, stat_result]
  dst_archive_status, \* dst.archive_status of the registration
  pc,                 \* addon -> where the addon's task chain stands
  archive_pc,         \* the archive task: "queued" | "done"
  node_pc,            \* archive_node: "waiting" | "done" | "raised"
  results,            \* addon -> what its stat_addon returned (chord header)
  res,                \* addon -> the copy endpoint's answer held by the task
  raised,             \* failed tasks whose on_failure hook has not run yet
  copy_requests,      \* addon -> number of POSTs issued to /ops/copy
  archive_addon_sent, \* addons for which archive_addon.delay was called
  archive_callback,   \* number of project_signals.archive_callback sends
  archive_fail,       \* the archive_fail sends, oldest first
  state_errors,       \* the info of each ArchiverStateError on_failure raised
  copy_message,       \* addon -> url and data of its make_copy_request message
  posted,             \* addon -> url and body of the POST made for it
  preprint,           \* the fields of a Preprint of osf/models/preprint.py
  groups,             \* group name -> the users in that group of the preprint
  call                \* the last call made on the preprint, and what it raised

archiver_vars ==
  <<file_tree, target_addons, dst_archive_status, pc, archive_pc, node_pc,
    results, res, raised, copy_requests, archive_addon_sent,
    archive_callback, archive_fail, state_errors, copy_message, posted>>

preprint_vars == <<preprint, groups, call>>

vars == <<archiver_vars, preprint_vars>>

Targets == DOMAIN target_addons

NoResult == [target_name |-> 0, num_files |-> 0, disk_usage |-> 0]

\* What an error entry, an exception or a signal carries.
Payload(kind, value) == [kind |-> kind, value |-> value]

update_target_appending(tgts, name, status, errors, stat_result) ==
  [tgts EXCEPT ![name] =
     [status |-> status,
      errors |-> tgts[name].errors \o errors,
      stat_result |-> IF stat_result = NoResult
                      THEN tgts[name].stat_result ELSE stat_result]]

\* ------------------------------------------------------ the ArchiveJob
\* ArchiveJob.update_target: sets the target's status; appends the supplied
\* errors; records the stat summary when supplied; a repeat of the same
\* terminal status is a no-op.
update_target(tgts, name, status, errors, stat_result) ==
  IF /\ tgts[name].status = status
     /\ status \in ARCHIVER_FAILURE_STATUSES \cup {ARCHIVER_SUCCESS}
  THEN tgts
  ELSE [tgts EXCEPT ![name] =
          [status |-> status,
           errors |-> tgts[name].errors \o errors,
           stat_result |-> IF stat_result = NoResult
                           THEN tgts[name].stat_result ELSE stat_result]]

\* ArchiveJob.status, as the failure hook reads it: the classification is
\* written through dst.archive_status to the job's state store, so the job
\* carries the status the hook recorded last.  (Both the HTTPError branch of
\* the hook, which collects the errors a task recorded on its target before
\* it raised, and the classifier's table need the job not to count as
\* failed merely because a target is.)
JobStatus(archive_status) == archive_status

\* ArchiveJob.target_info(): each target's name, status and errors.
target_info(tgts) ==
  [a \in DOMAIN tgts |-> [status |-> tgts[a].status, errors |-> tgts[a].errors]]

\* utils.aggregate_file_tree_metadata and the AggregateStatResult built by
\* stat_addon from it.
StatResultOf(a) ==
  [target_name |-> a,
   num_files |-> file_tree[a].num_files,
   disk_usage |-> file_tree[a].disk_usage]

RECURSIVE SumDiskUsage(_, _)
SumDiskUsage(rs, S) ==
  IF S = {} THEN 0
  ELSE LET a == CHOOSE x \in S : TRUE
       IN rs[a].disk_usage + SumDiskUsage(rs, S \ {a})

\* AggregateStatResult.disk_usage of the aggregate over the targets' results.
disk_usage(rs, S) == SumDiskUsage(rs, S)

\* ------------------------------------------------------------------ Init
\* The preprint model is a separate program: the pipeline runs with a
\* preprint nobody has touched.
NoCall == [op |-> "none", user |-> 0, exc |-> "none"]

UntouchedPreprint ==
  /\ preprint = [is_published |-> FALSE]
  /\ groups = [g \in {"read", "write", "admin"} |-> {}]
  /\ call = NoCall

Init ==
  /\ UntouchedPreprint
  /\ \E T \in SUBSET Addons :
       /\ file_tree \in [Addons -> FileTrees]
       /\ \A a \in Addons \ T : file_tree[a] = [num_files |-> 0, disk_usage |-> 0]
       /\ target_addons =
            [a \in T |-> [status |-> ARCHIVER_PENDING, errors |-> <<>>,
                          stat_result |-> NoResult]]
  /\ dst_archive_status = NotArchived
  /\ pc = [a \in Addons |-> "idle"]
  /\ archive_pc = "queued"
  /\ node_pc = "waiting"
  /\ results = [a \in Addons |-> NoResult]
  /\ res = [a \in Addons |-> NoResponse]
  /\ raised = {}
  /\ copy_requests = [a \in Addons |-> 0]
  /\ archive_addon_sent = {}
  /\ archive_callback = 0
  /\ archive_fail = <<>>
  /\ state_errors = <<>>
  /\ copy_message = [a \in {} |-> NoResult]
  /\ posted = [a \in {} |-> NoResult]

\* --------------------------------------------------------------- archive
\* archive: a chord of one stat_addon.si(addon_short_name=..., job_pk=...)
\* per target addon, with archive_node.s(job_pk) as its body.
chord_header_first_only ==
  IF Targets = {} THEN {} ELSE {CHOOSE a \in Targets : TRUE}

\* Lines 235-244: the addons the header has a stat_addon signature for.
chord_header == Targets

archive ==
  /\ archive_pc = "queued"
  /\ archive_pc' = "done"
  /\ pc' = [a \in Addons |->
             IF a \in chord_header THEN "stat_queued" ELSE pc[a]]
  /\ UNCHANGED preprint_vars
  /\ UNCHANGED <<file_tree, target_addons, dst_archive_status, node_pc,
                 results, res, raised, copy_requests, archive_addon_sent,
                 archive_callback, archive_fail, state_errors,
                 copy_message, posted>>

\* ------------------------------------------------------------ stat_addon
stat_addon_begin_unmarked(a) ==
  /\ pc[a] = "stat_queued"
  /\ pc' = [pc EXCEPT ![a] = "stat_checking"]
  /\ UNCHANGED preprint_vars
  /\ UNCHANGED <<file_tree, target_addons, dst_archive_status, archive_pc,
                 node_pc, results, res, raised, copy_requests,
                 archive_addon_sent, archive_callback, archive_fail,
                 state_errors, copy_message, posted>>

\* Lines 92-96: the target is marked CHECKING, then the file tree is asked
\* of the source provider.
stat_addon_begin(a) ==
  /\ pc[a] = "stat_queued"
  /\ target_addons' =
       update_target(target_addons, a, ARCHIVER_CHECKING, <<>>, NoResult)
  /\ pc' = [pc EXCEPT ![a] = "stat_checking"]
  /\ UNCHANGED preprint_vars
  /\ UNCHANGED <<file_tree, dst_archive_status, archive_pc, node_pc, results,
                 res, raised, copy_requests, archive_addon_sent,
                 archive_callback, archive_fail, state_errors,
                 copy_message, posted>>

\* Lines 98, 106-111: the file tree arrived; the task returns its result.
stat_addon_return(a) ==
  /\ pc[a] = "stat_checking"
  /\ results' = [results EXCEPT ![a] = StatResultOf(a)]
  /\ pc' = [pc EXCEPT ![a] = "stat_done"]
  /\ UNCHANGED preprint_vars
  /\ UNCHANGED <<file_tree, target_addons, dst_archive_status, archive_pc,
                 node_pc, res, raised, copy_requests, archive_addon_sent,
                 archive_callback, archive_fail, state_errors,
                 copy_message, posted>>

stat_addon_error_unrecorded(tgts, a) == tgts

stat_addon_error_all_targets(tgts, a) ==
  [b \in DOMAIN tgts |->
     [tgts[b] EXCEPT !.status = ARCHIVER_NETWORK_ERROR,
                     !.errors = @ \o <<Payload("e.data.error", a)>>]]

\* Lines 100-104: the update of the except clause.
stat_addon_error(tgts, a) ==
  update_target(tgts, a, ARCHIVER_NETWORK_ERROR,
                <<Payload("e.data.error", a)>>, NoResult)

\* Lines 99-105: _get_file_tree raised HTTPError; the target is marked
\* NETWORK_ERROR with e.data['error'] and the exception is re-raised.
stat_addon_raise(a) ==
  /\ pc[a] = "stat_checking"
  /\ target_addons' = stat_addon_error(target_addons, a)
  /\ pc' = [pc EXCEPT ![a] = "stat_failed"]
  /\ raised' = raised \cup
       {[task |-> "stat_addon", addon |-> a, exc |-> "HTTPError",
         result |-> Payload("none", <<>>),
         args |-> <<>>,
         kwargs |-> {"addon_short_name", "job_pk"}]}
  /\ UNCHANGED preprint_vars
  /\ UNCHANGED <<file_tree, dst_archive_status, archive_pc, node_pc, results,
                 res, copy_requests, archive_addon_sent, archive_callback,
                 archive_fail, state_errors,
                 copy_message, posted>>

\* ---------------------------------------------------------- archive_node
\* The chord body: celery applies it once every stat_addon of the header
\* has returned (at once when the header is empty), and never when one of
\* them raised.  It is sent as archive_node.s(job_pk): job_pk is positional.
chord_ready_despite_failure ==
  /\ archive_pc = "done"
  /\ node_pc = "waiting"
  /\ \A a \in Targets : pc[a] \in {"stat_done", "stat_failed"}

chord_ready_unsynchronized ==
  /\ archive_pc = "done"
  /\ node_pc = "waiting"

chord_ready ==
  /\ archive_pc = "done"
  /\ node_pc = "waiting"
  /\ \A a \in Targets : pc[a] = "stat_done"

size_exceeded_at_ceiling(rs, S) == disk_usage(rs, S) >= MAX_ARCHIVE_SIZE

size_exceeded_per_addon(rs, S) ==
  \E a \in S : rs[a].disk_usage > MAX_ARCHIVE_SIZE

\* Lines 203-204: the aggregate is over the ceiling.
size_exceeded(rs, S) == disk_usage(rs, S) > MAX_ARCHIVE_SIZE

nonempty_targets_unchecked(rs, S) == S

\* Lines 207-210: the targets the loop does not skip as empty.
nonempty_targets(rs, S) == {a \in S : rs[a].num_files # 0}

addons_archived_counting_empty(rs, S) == Cardinality(S)

\* Lines 206, 211: the count the loop keeps of the addons it archives.
addons_archived(rs, S) == Cardinality(nonempty_targets(rs, S))

\* Lines 193-218.
archive_node ==
  /\ chord_ready
  /\ LET stat_result == [a \in Targets |-> results[a]]
         nonempty == nonempty_targets(results, Targets)
     IN IF size_exceeded(results, Targets)
        THEN /\ node_pc' = "raised"
             /\ raised' = raised \cup
                  {[task |-> "archive_node", addon |-> 0,
                    exc |-> "ArchiverSizeExceeded",
                    result |-> Payload("stat_result", stat_result),
                    args |-> <<"results", "job_pk">>,
                    kwargs |-> {}]}
             /\ UNCHANGED <<target_addons, pc, archive_addon_sent,
                            archive_callback>>
        ELSE /\ node_pc' = "done"
             /\ target_addons' =
                  [a \in Targets |->
                     IF a \in nonempty THEN target_addons[a]
                     ELSE update_target(target_addons, a, ARCHIVER_SUCCESS,
                                        <<>>, NoResult)[a]]
             /\ pc' = [a \in Addons |->
                         IF pc[a] # "stat_done" THEN pc[a]
                         ELSE IF a \in nonempty THEN "addon_queued"
                         ELSE "skipped"]
             /\ archive_addon_sent' = archive_addon_sent \cup nonempty
             /\ archive_callback' =
                  IF addons_archived(results, Targets) = 0
                  THEN archive_callback + 1
                  ELSE archive_callback
             /\ UNCHANGED raised
  /\ UNCHANGED preprint_vars
  /\ UNCHANGED <<file_tree, dst_archive_status, archive_pc, results, res,
                 copy_requests, archive_fail, state_errors,
                 copy_message, posted>>

\* --------------------------------------------------------- archive_addon
\* Lines 160-161: src_provider.archive_folder_name, a name of the addon's.
archive_folder_name(a) == <<"archive_folder_name", a>>

\* Lines 164-178: the body of the copy request for addon a.
copy_data(a) ==
  [source |-> [cookie |-> "cookie", nid |-> "src._id", provider |-> a,
               path |-> "/"],
   destination |-> [cookie |-> "cookie", nid |-> "dst._id",
                    provider |-> "ARCHIVE_PROVIDER", path |-> "/"],
   rename |-> archive_folder_name(a)]

\* Line 179.
copy_url == <<"WATERBUTLER_URL", "/ops/copy">>

\* Lines 151-180: the target goes back to PENDING with its stat result, the
\* copy payload is built and make_copy_request is sent with keyword
\* arguments job_pk, url and data.
archive_addon(a) ==
  /\ pc[a] = "addon_queued"
  /\ target_addons' =
       update_target(target_addons, a, ARCHIVER_PENDING, <<>>, results[a])
  /\ copy_message' = copy_message @@ (a :> [url |-> copy_url,
                                            data |-> copy_data(a)])
  /\ pc' = [pc EXCEPT ![a] = "copy_queued"]
  /\ UNCHANGED preprint_vars
  /\ UNCHANGED <<file_tree, dst_archive_status, archive_pc, node_pc, results,
                 res, raised, copy_requests, archive_addon_sent,
                 archive_callback, archive_fail, state_errors, posted>>

\* ----------------------------------------------------- make_copy_request
CopyKwargs == {"job_pk", "url", "data"}

\* Lines 123-129: the target is marked SENDING and the request is POSTed.
make_copy_request_post(a) ==
  /\ pc[a] = "copy_queued"
  /\ target_addons' =
       update_target(target_addons, copy_message[a].data.source.provider,
                     ARCHIVER_SENDING, <<>>, NoResult)
  /\ copy_requests' = [copy_requests EXCEPT ![a] = @ + 1]
  /\ posted' = posted @@ (a :> [url |-> copy_message[a].url,
                                body |-> copy_message[a].data])
  /\ pc' = [pc EXCEPT ![a] = "copy_sending"]
  /\ UNCHANGED preprint_vars
  /\ UNCHANGED <<file_tree, dst_archive_status, archive_pc, node_pc, results,
                 res, raised, archive_addon_sent, archive_callback,
                 archive_fail, state_errors, copy_message>>

\* Lines 129-130: requests.post returned a response, whatever its status
\* code; the target is marked SENT.
make_copy_request_sent(a) ==
  /\ pc[a] = "copy_sending"
  /\ \E code \in StatusCodes :
       res' = [res EXCEPT ![a] = [status_code |-> code]]
  /\ target_addons' =
       update_target(target_addons, a, ARCHIVER_SENT, <<>>, NoResult)
  /\ pc' = [pc EXCEPT ![a] = "copy_sent"]
  /\ UNCHANGED preprint_vars
  /\ UNCHANGED <<file_tree, dst_archive_status, archive_pc, node_pc, results,
                 raised, copy_requests, archive_addon_sent, archive_callback,
                 archive_fail, state_errors,
                 copy_message, posted>>

\* Line 129: requests.post raised (no connection to the copy endpoint); the
\* exception leaves the task as it is.
make_copy_request_no_response(a) ==
  /\ pc[a] = "copy_sending"
  /\ pc' = [pc EXCEPT ![a] = "copy_failed"]
  /\ raised' = raised \cup
       {[task |-> "make_copy_request", addon |-> a,
         exc |-> "ConnectionError", result |-> Payload("none", <<>>),
         args |-> <<>>, kwargs |-> CopyKwargs]}
  /\ UNCHANGED preprint_vars
  /\ UNCHANGED <<file_tree, target_addons, dst_archive_status, archive_pc,
                 node_pc, results, res, copy_requests, archive_addon_sent,
                 archive_callback, archive_fail, state_errors,
                 copy_message, posted>>

is_failure_response_server_only(status_code) == status_code >= 500

is_failure_response_non_2xx(status_code) == status_code \notin 200..299

\* Line 131: the response codes the task takes for a failure.
is_failure_response(status_code) == status_code \notin {200, 201, 202}

is_complete_response_with_202(status_code) == status_code \in {200, 201, 202}

\* Line 138: the response codes the task takes for a finished copy.
is_complete_response(status_code) == status_code \in {200, 201}

make_copy_request_finish_signalling(a) ==
  /\ pc[a] = "copy_sent"
  /\ archive_callback' = archive_callback + 1
  /\ IF is_failure_response(res[a].status_code)
     THEN /\ target_addons' =
               update_target(target_addons, a, ARCHIVER_FAILURE,
                             <<Payload("res.json", res[a].status_code)>>,
                             NoResult)
          /\ pc' = [pc EXCEPT ![a] = "copy_failed"]
          /\ raised' = raised \cup
               {[task |-> "make_copy_request", addon |-> a,
                 exc |-> "HTTPError", result |-> Payload("none", <<>>),
                 args |-> <<>>, kwargs |-> CopyKwargs]}
     ELSE /\ target_addons' =
               IF is_complete_response(res[a].status_code)
               THEN update_target(target_addons, a, ARCHIVER_SUCCESS, <<>>,
                                  NoResult)
               ELSE target_addons
          /\ pc' = [pc EXCEPT ![a] = "copy_done"]
          /\ UNCHANGED raised
  /\ UNCHANGED preprint_vars
  /\ UNCHANGED <<file_tree, dst_archive_status, archive_pc, node_pc, results,
                 res, copy_requests, archive_addon_sent, archive_fail,
                 state_errors, copy_message, posted>>

\* Lines 131-140: the response is classified.
make_copy_request_finish(a) ==
  /\ pc[a] = "copy_sent"
  /\ IF is_failure_response(res[a].status_code)
     THEN /\ target_addons' =
               update_target(target_addons, a, ARCHIVER_FAILURE,
                             <<Payload("res.json", res[a].status_code)>>,
                             NoResult)
          /\ pc' = [pc EXCEPT ![a] = "copy_failed"]
          /\ raised' = raised \cup
               {[task |-> "make_copy_request", addon |-> a,
                 exc |-> "HTTPError", result |-> Payload("none", <<>>),
                 args |-> <<>>, kwargs |-> CopyKwargs]}
          /\ UNCHANGED archive_callback
     ELSE /\ target_addons' =
               IF is_complete_response(res[a].status_code)
               THEN update_target(target_addons, a, ARCHIVER_SUCCESS, <<>>,
                                  NoResult)
               ELSE target_addons
          /\ pc' = [pc EXCEPT ![a] = "copy_done"]
          /\ archive_callback' = archive_callback + 1
          /\ UNCHANGED raised
  /\ UNCHANGED preprint_vars
  /\ UNCHANGED <<file_tree, dst_archive_status, archive_pc, node_pc, results,
                 res, copy_requests, archive_addon_sent, archive_fail,
                 state_errors,
                 copy_message, posted>>

\* ------------------------------------------------ ArchiverTask.on_failure
classify_http_as_uncaught(t, tgts) ==
  IF t.exc = "ArchiverSizeExceeded"
  THEN [status |-> ARCHIVER_SIZE_EXCEEDED, errors |-> t.result]
  ELSE [status |-> ARCHIVER_UNCAUGHT_ERROR,
        errors |-> Payload("einfo", <<t.task>>)]

classify_einfo_for_all(t, tgts) ==
  [status |-> IF t.exc = "ArchiverSizeExceeded" THEN ARCHIVER_SIZE_EXCEEDED
              ELSE IF t.exc = "HTTPError" THEN ARCHIVER_NETWORK_ERROR
              ELSE ARCHIVER_UNCAUGHT_ERROR,
   errors |-> Payload("einfo", <<t.task>>)]

\* Lines 71-79: the status and the errors the exception is classified to.
classify(t, tgts) ==
  IF t.exc = "ArchiverSizeExceeded"
  THEN [status |-> ARCHIVER_SIZE_EXCEEDED, errors |-> t.result]
  ELSE IF t.exc = "HTTPError"
       THEN [status |-> ARCHIVER_NETWORK_ERROR,
             errors |-> Payload("target_info", target_info(tgts))]
       ELSE [status |-> ARCHIVER_UNCAUGHT_ERROR,
             errors |-> Payload("einfo", <<t.task>>)]

job_found_whatever_kwargs(kwargs) == TRUE

\* Lines 58-59: ArchiveJob.load(kwargs.get('job_pk')) gives the job.
job_found(kwargs) == "job_pk" \in kwargs

stored_at_send_unsaved(before, assigned) == before

\* Lines 80-81: dst.save() comes before archive_fail.send, so the status a
\* receiver of the signal finds stored is the one the hook assigned, not
\* the one stored before.
stored_at_send(before, assigned) == assigned

\* What a worker would do with max_retries above zero: the failed task is
\* queued again and no failure hook runs for it.
on_failure_retrying(t) ==
  /\ t \in raised
  /\ raised' = raised \ {t}
  /\ pc' = IF t.addon \in Addons
           THEN [pc EXCEPT ![t.addon] = IF t.task = "stat_addon"
                                        THEN "stat_queued"
                                        ELSE "copy_queued"]
           ELSE pc
  /\ node_pc' = IF t.task = "archive_node" THEN "waiting" ELSE node_pc
  /\ UNCHANGED preprint_vars
  /\ UNCHANGED <<file_tree, target_addons, dst_archive_status, archive_pc,
                 results, res, copy_requests, archive_addon_sent,
                 archive_callback, archive_fail, state_errors,
                 copy_message, posted>>

\* Lines 53-81, run by the worker for a task that raised: with max_retries
\* at 0 the task is not sent again and its failure hook runs.  The job is
\* looked up under kwargs.get('job_pk'): a task sent without the keyword
\* job_pk gives no job, and the hook raises ArchiverStateError.
on_failure(t) ==
  /\ t \in raised
  /\ raised' = raised \ {t}
  /\ IF ~ job_found(t.kwargs)
     THEN /\ state_errors' =
               Append(state_errors,
                      [exception |-> t.exc, args |-> t.args,
                       kwargs |-> t.kwargs, einfo |-> <<t.task>>])
          /\ UNCHANGED <<dst_archive_status, archive_fail>>
     ELSE IF JobStatus(dst_archive_status) = ARCHIVER_FAILURE
          THEN UNCHANGED <<dst_archive_status, archive_fail, state_errors,
                 copy_message, posted>>
          ELSE LET c == classify(t, target_addons)
               IN /\ dst_archive_status' = c.status
                  /\ archive_fail' =
                       Append(archive_fail,
                              [status |-> c.status, errors |-> c.errors,
                               stored |-> stored_at_send(dst_archive_status,
                                                         c.status)])
                  /\ UNCHANGED state_errors
  /\ UNCHANGED preprint_vars
  /\ UNCHANGED <<file_tree, target_addons, pc, archive_pc, node_pc, results,
                 res, copy_requests, archive_addon_sent, archive_callback,
                 copy_message, posted>>

Next ==
  \/ archive
  \/ \E a \in Addons : stat_addon_begin(a)
  \/ \E a \in Addons : stat_addon_return(a)
  \/ \E a \in Addons : stat_addon_raise(a)
  \/ archive_node
  \/ \E a \in Addons : archive_addon(a)
  \/ \E a \in Addons : make_copy_request_post(a)
  \/ \E a \in Addons : make_copy_request_sent(a)
  \/ \E a \in Addons : make_copy_request_no_response(a)
  \/ \E a \in Addons : make_copy_request_finish(a)
  \/ \E t \in raised : on_failure(t)

Spec == Init /\ [][Next]_vars

\* ------------------------------------------------ at-least-once delivery
\* The task queue may deliver a message again.  The redeliveries looked at
\* are the late ones, of a message of an addon whose target is SUCCESS.
\* A copy message is delivered again at most MaxRedeliveries times.
MaxRedeliveries == 1

redeliver_stat_addon(a) ==
  /\ a \in Targets
  /\ pc[a] \in {"skipped", "copy_done"}
  /\ target_addons[a].status = ARCHIVER_SUCCESS
  /\ pc' = [pc EXCEPT ![a] = "stat_queued"]
  /\ UNCHANGED preprint_vars
  /\ UNCHANGED <<file_tree, target_addons, dst_archive_status, archive_pc,
                 node_pc, results, res, raised, copy_requests,
                 archive_addon_sent, archive_callback, archive_fail,
                 state_errors, copy_message, posted>>

redeliver_archive_addon(a) ==
  /\ a \in Targets
  /\ pc[a] = "copy_done"
  /\ target_addons[a].status = ARCHIVER_SUCCESS
  /\ copy_requests[a] <= MaxRedeliveries
  /\ pc' = [pc EXCEPT ![a] = "addon_queued"]
  /\ UNCHANGED preprint_vars
  /\ UNCHANGED <<file_tree, target_addons, dst_archive_status, archive_pc,
                 node_pc, results, res, raised, copy_requests,
                 archive_addon_sent, archive_callback, archive_fail,
                 state_errors, copy_message, posted>>

redeliver_make_copy_request(a) ==
  /\ a \in Targets
  /\ pc[a] = "copy_done"
  /\ target_addons[a].status = ARCHIVER_SUCCESS
  /\ copy_requests[a] <= MaxRedeliveries
  /\ pc' = [pc EXCEPT ![a] = "copy_queued"]
  /\ UNCHANGED preprint_vars
  /\ UNCHANGED <<file_tree, target_addons, dst_archive_status, archive_pc,
                 node_pc, results, res, raised, copy_requests,
                 archive_addon_sent, archive_callback, archive_fail,
                 state_errors, copy_message, posted>>

NextRedelivery ==
  \/ Next
  \/ \E a \in Addons : redeliver_stat_addon(a)
  \/ \E a \in Addons : redeliver_archive_addon(a)
  \/ \E a \in Addons : redeliver_make_copy_request(a)

SpecRedelivery == Init /\ [][NextRedelivery]_vars

\* ------------------------------------------------------------- fairness
\* The workers run every task that is queued and every failure hook that is
\* due, and every network call returns or raises: a step stays possible
\* only for so long.
SpecFair == Init /\ [][Next]_vars /\ WF_vars(Next)

\* ======================================================================
\* osf/models/preprint.py: Preprint.set_published and
\* Preprint.set_permissions, called one after the other on one preprint.
\* ======================================================================
\* The users that call or are given permissions are 1..NumUsers.
NumUsers == 2

Users == 1..NumUsers

\* Lines 102-106: the groups of a preprint and the permissions of each.
Groups == {"read", "write", "admin"}

GroupPermissions ==
  [g \in Groups |->
     IF g = "read" THEN {"read"}
     ELSE IF g = "write" THEN {"read", "write"}
     ELSE {"read", "write", "admin"}]

\* What timezone.now() gives, and a date field that is not set.
Now == "now"
NoDate == "None"

\* DefaultStates.INITIAL.value and DefaultStates.ACCEPTED.value.
INITIAL == "initial"
ACCEPTED == "accepted"

\* The preprints set_published may find: unpublished, with or without a
\* title, a primary file of its own, a provider and subjects.
UnpublishedPreprints ==
  [is_published : {FALSE},
   date_published : {NoDate},
   is_public : BOOLEAN,
   is_spam : BOOLEAN,
   machine_state : {INITIAL},
   title : {"", "A title"},
   primary_file : {"None", "own", "of another preprint"},
   provider : {"None", "osf"},
   subjects : {{}, {"subject"}}]

\* A preprint as Preprint.save leaves it when first saved (lines 458-490):
\* the creator is a contributor with admin permission; every other user is
\* in at most one group.
InitPreprint ==
  /\ file_tree = [a \in Addons |-> [num_files |-> 0, disk_usage |-> 0]]
  /\ target_addons = [a \in {} |-> NoResult]
  /\ dst_archive_status = NotArchived
  /\ pc = [a \in Addons |-> "idle"]
  /\ archive_pc = "idle"
  /\ node_pc = "waiting"
  /\ results = [a \in Addons |-> NoResult]
  /\ res = [a \in Addons |-> NoResponse]
  /\ raised = {}
  /\ copy_requests = [a \in Addons |-> 0]
  /\ archive_addon_sent = {}
  /\ archive_callback = 0
  /\ archive_fail = <<>>
  /\ state_errors = <<>>
  /\ copy_message = [a \in {} |-> NoResult]
  /\ posted = [a \in {} |-> NoResult]
  /\ preprint \in UnpublishedPreprints
  /\ \E group_of \in [Users -> Groups \cup {"none"}] :
       /\ \E u \in Users : group_of[u] = "admin"
       /\ groups = [g \in Groups |-> {u \in Users : group_of[u] = g}]
  /\ call = NoCall

\* Lines 295-303: user.has_perm('<permission>_preprint', self); a user has
\* the permissions of the groups the user is in.
has_permission(grps, user, permission) ==
  \E g \in Groups : user \in grps[g] /\ permission \in GroupPermissions[g]

\* Lines 771-774: the user is removed from every group of the preprint.
clear_permissions(grps, user) == [g \in Groups |-> grps[g] \ {user}]

\* Lines 736-750: the user is added to the group of that permission.
add_permission(grps, user, permission) ==
  [grps EXCEPT ![permission] = @ \cup {user}]

admin_count_too_low_never(count) == FALSE

\* Line 311: the admin group has no admin to spare.
admin_count_too_low(count) == count <= 1

\* Lines 306-317.
set_permissions(user, permissions, validate) ==
  /\ IF /\ validate
        /\ has_permission(groups, user, "admin")
        /\ permissions # "admin"
        /\ admin_count_too_low(Cardinality(groups["admin"]))
     THEN /\ call' = [op |-> "set_permissions", user |-> user,
                      permissions |-> permissions,
                      exc |-> "PreprintStateError"]
          /\ UNCHANGED groups
     ELSE /\ groups' = add_permission(clear_permissions(groups, user), user,
                                      permissions)
          /\ call' = [op |-> "set_permissions", user |-> user,
                      permissions |-> permissions, exc |-> "none"]
  /\ UNCHANGED preprint
  /\ UNCHANGED archiver_vars

cannot_unpublish_never(is_published, published) == FALSE

\* Line 397.
cannot_unpublish(is_published, published) == is_published /\ ~ published

\* Lines 682-686, as set_published calls it (no auth, no log, no save):
\* what making the preprint public raises, if anything.
set_privacy_public_raises(p) == ~ p.is_public /\ p.is_spam

\* Lines 402-409: what the checks of a publication raise, if anything.
publish_check(p) ==
  IF p.title = "" THEN "Preprint needs a title; cannot publish."
  ELSE IF p.primary_file # "own"
  THEN "Preprint is not a valid preprint; cannot publish."
  ELSE IF p.provider = "None"
  THEN "Preprint provider not specified; cannot publish."
  ELSE IF p.subjects = {}
  THEN "Preprint must have at least one subject to be published."
  ELSE "passed"

\* Lines 393-431.  The call's outcome is the exception it raises.
set_published(user, published) ==
  /\ LET outcome(exc) ==
           [op |-> "set_published", user |-> user, published |-> published,
            exc |-> exc]
         assigned == [preprint EXCEPT !.is_published = published]
         dated == [assigned EXCEPT !.date_published = Now]
     IN IF ~ has_permission(groups, user, "admin")
        THEN call' = outcome("PermissionsError") /\ UNCHANGED preprint
        ELSE IF cannot_unpublish(preprint.is_published, published)
        THEN call' = outcome("ValueError") /\ UNCHANGED preprint
        ELSE IF ~ published
        THEN call' = outcome("none") /\ preprint' = assigned
        ELSE IF publish_check(assigned) # "passed"
        THEN call' = outcome("ValueError") /\ preprint' = assigned
        ELSE IF set_privacy_public_raises(dated)
        THEN call' = outcome("PreprintStateError") /\ preprint' = dated
        ELSE /\ call' = outcome("none")
             /\ preprint' = [dated EXCEPT !.is_public = TRUE,
                                          !.machine_state = ACCEPTED]
  /\ UNCHANGED groups
  /\ UNCHANGED archiver_vars

NextPreprint ==
  \/ \E user \in Users, published \in BOOLEAN : set_published(user, published)
  \/ \E user \in Users, permissions \in Groups :
       set_permissions(user, permissions, TRUE)

SpecPreprint == InitPreprint /\ [][NextPreprint]_vars

\* ======================================================================
\* The properties.
\* ======================================================================
status_of(a) == target_addons[a].status

IsEmpty(a) == file_tree[a].num_files = 0

\* The aggregate the stat phase collects once every stat_addon returned.
AggregateSize == SumDiskUsage(file_tree, Targets)

OverCeiling == AggregateSize > MAX_ARCHIVE_SIZE

\* No task is queued or running and no failure hook is pending.
Quiescent ==
  /\ archive_pc = "done"
  /\ raised = {}
  /\ \A a \in Targets :
       pc[a] \in {"stat_failed", "stat_done", "skipped", "copy_done",
                  "copy_failed"}
  /\ ~ chord_ready

\* The run went through every step without a task raising.
CompleteRun ==
  /\ node_pc = "done"
  /\ \A a \in Targets : pc[a] \in {"skipped", "copy_done"}

NoCopyAtAll ==
  /\ archive_addon_sent = {}
  /\ \A a \in Addons : copy_requests[a] = 0
  /\ \A a \in Addons :
       pc[a] \notin {"addon_queued", "copy_queued", "copy_sending",
                     "copy_sent", "copy_done", "copy_failed"}

\* C1: over a complete run of the pipeline the completion signal
\* archive_callback has been sent exactly once, whatever the number of
\* non-empty addons.
C1_CallbackExactlyOnce == CompleteRun => archive_callback = 1

\* C2: whenever the completion signal is sent, every target of the job is
\* SUCCESS at that moment (no copy task outstanding, none short of SUCCESS).
C2_CallbackOnlyWhenAllSuccess ==
  [][archive_callback' > archive_callback
       => \A a \in Targets : target_addons'[a].status = ARCHIVER_SUCCESS]_vars

\* C3: no job sends both archive_fail and archive_callback.
C3_NeverFailAndCallback == ~ (archive_fail # <<>> /\ archive_callback > 0)

\* C4: when the aggregate of the stat phase is over MAX_ARCHIVE_SIZE, no
\* archive_addon is scheduled, no make_copy_request runs and nothing is
\* POSTed, in any interleaving.
C4_SizeGateNoCopy == OverCeiling => NoCopyAtAll

\* C4 witness: the stat phase of an oversized job ended and archive_node
\* has raised.
C4_Witness ==
  /\ OverCeiling
  /\ node_pc = "raised"
  /\ Cardinality(Targets) >= 2

\* C5: when the aggregate is over the ceiling, every target of the job ends
\* with status SIZE_EXCEEDED.
C5_AllTargetsSizeExceeded ==
  (OverCeiling /\ node_pc = "raised" /\ Quiescent)
    => \A a \in Targets : status_of(a) = ARCHIVER_SIZE_EXCEEDED

\* C6: once archive_node raised ArchiverSizeExceeded and the failure hook
\* ran, the registration carries SIZE_EXCEEDED and archive_fail was sent
\* exactly once, with the oversized aggregate stat result as its errors.
C6_SizeExceededReported ==
  (node_pc = "raised" /\ Quiescent)
    => /\ dst_archive_status = ARCHIVER_SIZE_EXCEEDED
       /\ Len(archive_fail) = 1
       /\ archive_fail[1].errors =
            Payload("stat_result", [a \in Targets |-> results[a]])

\* C7: archive_fail is sent at most once per job, and a failure-class
\* status recorded by a failure hook is never overwritten by a later one.
C7_FirstFailureWins ==
  [][/\ Len(archive_fail') <= 1
     /\ dst_archive_status \in ARCHIVER_FAILURE_STATUSES
          => dst_archive_status' = dst_archive_status]_vars

C10_AllEmptyJob ==
  (\A a \in Targets : IsEmpty(a)) =>
    /\ NoCopyAtAll
    /\ archive_callback <= 1
    /\ node_pc # "raised"
    /\ node_pc = "done" =>
         /\ archive_callback = 1
         /\ \A a \in Targets : status_of(a) = ARCHIVER_SUCCESS

\* C10 witness: archive_node finished a job of two empty addons.
C10_Witness ==
  /\ Cardinality(Targets) >= 2
  /\ \A a \in Targets : IsEmpty(a)
  /\ node_pc = "done"
  /\ archive_callback = 1

\* ---------------------------------------------------------------------
Is2xx(status_code) == status_code \in 200..299

\* The copy task of a got a response from the copy endpoint.
Responded(a) == res[a] # NoResponse

\* The copy task of a ended after a response: it returned or it raised.
CopyEnded(a) == pc[a] \in {"copy_done", "copy_failed"} /\ Responded(a)

\* No failed task of addon a is still waiting for its failure hook.
HookRan(a) == \A t \in raised : t.addon # a

\* The body of the response the copy task of a holds, as res.json() gives it.
ResponseBody(a) == Payload("res.json", res[a].status_code)

\* C11 (as stated): a target is SENT only when the copy endpoint answered
\* with a 2xx status code.
C11_SentOnlyAfter2xx ==
  \A a \in Targets :
    status_of(a) = ARCHIVER_SENT => Is2xx(res[a].status_code)

\* C11 (amended): a target is SENT only once the copy endpoint answered,
\* whatever the status code, and after a non-2xx answer it is SENT only
\* until the task classifies the response: never when the task has ended.
C11_SentOnAnyResponse ==
  \A a \in Targets :
    status_of(a) = ARCHIVER_SENT =>
      /\ Responded(a)
      /\ ~ Is2xx(res[a].status_code) => pc[a] = "copy_sent"

\* C11 witness: the endpoint answered 500 and the target is SENT.
C11_Witness ==
  \E a \in Targets :
    /\ status_of(a) = ARCHIVER_SENT
    /\ res[a].status_code = 500
    /\ pc[a] = "copy_sent"

\* The failure hook of the copy task of a sent archive_fail with status
\* NETWORK_ERROR and the job's target info, the errors of a among them.
CopyFailureSignalled(a) ==
  \E i \in 1..Len(archive_fail) :
    /\ archive_fail[i].status = ARCHIVER_NETWORK_ERROR
    /\ archive_fail[i].errors.kind = "target_info"
    /\ archive_fail[i].errors.value[a].errors = <<ResponseBody(a)>>

C13_FailureIffNon2xx ==
  \A a \in Targets :
    CopyEnded(a) =>
      /\ status_of(a) \in ARCHIVER_FAILURE_STATUSES
           <=> ~ Is2xx(res[a].status_code)
      /\ status_of(a) = ARCHIVER_SUCCESS
           <=> res[a].status_code \in {200, 201}

\* C13 (amended): the copy task leaves its target failed exactly when the
\* status code is none of 200, 201 and 202 (a 2xx code such as 204 is a
\* failure too), and SUCCESS exactly for 200 and 201.
C13_FailureIffNotAccepted ==
  \A a \in Targets :
    CopyEnded(a) =>
      /\ status_of(a) \in ARCHIVER_FAILURE_STATUSES
           <=> res[a].status_code \notin {200, 201, 202}
      /\ pc[a] = "copy_failed" <=> res[a].status_code \notin {200, 201, 202}
      /\ status_of(a) = ARCHIVER_SUCCESS
           <=> res[a].status_code \in {200, 201}

\* C13 witness: a copy request answered 204 left its target FAILURE while
\* one answered 201 left its target SUCCESS.
C13_Witness ==
  \E a, b \in Targets :
    /\ CopyEnded(a) /\ res[a].status_code = 204
    /\ status_of(a) = ARCHIVER_FAILURE
    /\ CopyEnded(b) /\ res[b].status_code = 201
    /\ status_of(b) = ARCHIVER_SUCCESS

\* C14: after a 202 response the target is SENT when make_copy_request
\* returns and stays SENT: no task of the pipeline sets it to SUCCESS.
C14_AcceptedStaysSent ==
  \A a \in Targets :
    (pc[a] = "copy_done" /\ res[a].status_code = 202)
      => status_of(a) = ARCHIVER_SENT

\* C14 witness: the whole pipeline came to rest with a target answered 202.
C14_Witness ==
  \E a \in Targets :
    /\ pc[a] = "copy_done"
    /\ res[a].status_code = 202
    /\ Quiescent
    /\ Cardinality(Targets) >= 2

\* The error entry stat_addon records on target a when the provider fails.
ProviderError(a) == Payload("e.data.error", a)

\* The failure hook of the stat task of a sent archive_fail with status
\* NETWORK_ERROR and the job's target info, the error of a among them.
StatFailureSignalled(a) ==
  \E i \in 1..Len(archive_fail) :
    /\ archive_fail[i].status = ARCHIVER_NETWORK_ERROR
    /\ archive_fail[i].errors.kind = "target_info"
    /\ archive_fail[i].errors.value[a].status = ARCHIVER_NETWORK_ERROR
    /\ archive_fail[i].errors.value[a].errors = <<ProviderError(a)>>

\* C15: when the provider's file-tree enumeration raises HTTPError inside
\* stat_addon the target is NETWORK_ERROR with the provider's error as its
\* error and the task raised HTTPError; once its failure hook ran the
\* registration is NETWORK_ERROR, archive_fail was sent and no
\* archive_callback is: the job is decided, failed.
C15_StatFailureRecorded ==
  \A a \in Targets :
    pc[a] = "stat_failed" =>
      /\ status_of(a) = ARCHIVER_NETWORK_ERROR
      /\ target_addons[a].errors = <<ProviderError(a)>>
      /\ node_pc = "waiting"
      /\ archive_callback = 0
      /\ IF HookRan(a)
         THEN /\ dst_archive_status = ARCHIVER_NETWORK_ERROR
              /\ StatFailureSignalled(a)
         ELSE \E t \in raised :
                /\ t.task = "stat_addon"
                /\ t.addon = a
                /\ t.exc = "HTTPError"

\* C15 witness: a stat task failed while another returned its result, the
\* failure hook ran and the pipeline came to rest.
C15_Witness ==
  \E a, b \in Targets :
    /\ pc[a] = "stat_failed"
    /\ pc[b] = "stat_done"
    /\ HookRan(a)
    /\ StatFailureSignalled(a)
    /\ Quiescent

ExceptionKinds == {"ArchiverSizeExceeded", "HTTPError", "ConnectionError"}

\* The classification the claim gives: the status and the kind of payload.
ClassificationTable(exc) ==
  CASE exc = "ArchiverSizeExceeded" ->
         <<ARCHIVER_SIZE_EXCEEDED, "stat_result">>
    [] exc = "HTTPError" -> <<ARCHIVER_NETWORK_ERROR, "target_info">>
    [] OTHER -> <<ARCHIVER_UNCAUGHT_ERROR, "einfo">>

\* The tasks that failed and whose failure hook ran with the job loaded.
ClassifiedFailures ==
  {a \in Targets : pc[a] \in {"stat_failed", "copy_failed"} /\ HookRan(a)}

C17_ConnectionFailureIsNetworkError ==
  \A a \in Targets :
    (pc[a] = "copy_failed" /\ ~ Responded(a) /\ HookRan(a)) =>
      /\ status_of(a) \in ARCHIVER_FAILURE_STATUSES
      /\ \A i \in 1..Len(archive_fail) :
           archive_fail[i].status # ARCHIVER_UNCAUGHT_ERROR

\* C18: a failure hook that finds no job under kwargs.get('job_pk') raises
\* ArchiverStateError carrying the exception, args, kwargs and einfo, and
\* changes no status and sends no signal.
C18_JobNotFound ==
  [][\A t \in raised :
       (raised' = raised \ {t} /\ "job_pk" \notin t.kwargs) =>
         /\ state_errors' =
              Append(state_errors,
                     [exception |-> t.exc, args |-> t.args,
                      kwargs |-> t.kwargs, einfo |-> <<t.task>>])
         /\ UNCHANGED <<target_addons, dst_archive_status, archive_fail,
                        archive_callback>>]_vars

\* C18 witness: the hook of archive_node, which is sent with job_pk as a
\* positional argument, raised ArchiverStateError.
C18_Witness ==
  /\ Len(state_errors) = 1
  /\ state_errors[1].exception = "ArchiverSizeExceeded"
  /\ state_errors[1].args = <<"results", "job_pk">>
  /\ state_errors[1].kwargs = {}
  /\ archive_fail = <<>>
  /\ dst_archive_status = NotArchived

\* The tasks that failed, and the failure hooks due or done for them.
FailedTasks ==
  Cardinality({a \in Addons : pc[a] \in {"stat_failed", "copy_failed"}})
    + (IF node_pc = "raised" THEN 1 ELSE 0)

HookRuns == Len(archive_fail) + Len(state_errors)

\* C19: a failed task is never run again (its position stays failed, the
\* copy endpoint gets at most one POST for a target), a task enters the
\* failure path only in the step it fails in, and each failed task has its
\* failure hook run exactly once or still due.
C19_NoRetry ==
  [][/\ \A a \in Addons :
          /\ pc[a] \in {"stat_failed", "copy_failed"} => pc'[a] = pc[a]
          /\ copy_requests'[a] <= 1
     /\ node_pc = "raised" => node_pc' = "raised"
     /\ \A t \in raised' \ raised :
          IF t.task = "archive_node"
          THEN node_pc # "raised" /\ node_pc' = "raised"
          ELSE /\ pc[t.addon] \notin {"stat_failed", "copy_failed"}
               /\ pc'[t.addon] \in {"stat_failed", "copy_failed"}
     /\ HookRuns' + Cardinality(raised') = FailedTasks']_vars

\* C19 witness: two tasks failed, both hooks ran, the pipeline is at rest.
C19_Witness ==
  /\ FailedTasks = 2
  /\ HookRuns = 2
  /\ raised = {}
  /\ Quiescent

TerminalUpdates(a) ==
  (ARCHIVER_FAILURE_STATUSES \cup {ARCHIVER_SUCCESS})
    \X {<<>>, <<ResponseBody(a)>>, <<ProviderError(a)>>}

C21_RenameInDestination ==
  \A a \in DOMAIN posted :
    /\ posted[a].url = <<"WATERBUTLER_URL", "/ops/copy">>
    /\ posted[a].body.source =
         [cookie |-> "cookie", nid |-> "src._id", provider |-> a,
          path |-> "/"]
    /\ DOMAIN posted[a].body.destination =
         {"cookie", "nid", "provider", "path", "rename"}
    /\ posted[a].body.destination.nid = "dst._id"
    /\ posted[a].body.destination.provider = "ARCHIVE_PROVIDER"
    /\ posted[a].body.destination.path = "/"
    /\ posted[a].body.destination.rename = archive_folder_name(a)

\* The order of the statuses of a target that is not failed.
StatusOrder ==
  <<ARCHIVER_PENDING, ARCHIVER_CHECKING, ARCHIVER_SENDING, ARCHIVER_SENT,
    ARCHIVER_SUCCESS>>

\* The place of a status in that order; a failure-class status is last.
StatusRank(status) ==
  IF status \in ARCHIVER_FAILURE_STATUSES
  THEN Len(StatusOrder) + 1
  ELSE CHOOSE i \in 1..Len(StatusOrder) : StatusOrder[i] = status

\* C22 (as stated): every status change the pipeline makes to a target
\* moves forward in the order PENDING, CHECKING, SENDING, SENT, SUCCESS or
\* into a failure-class status; no target goes back to an earlier status.
C22_ForwardOnly ==
  [][\A a \in Targets :
       StatusRank(target_addons'[a].status)
         >= StatusRank(target_addons[a].status)]_vars

\* C23 (as stated): the failure hook of every task the pipeline sends finds
\* the job: it never raises ArchiverStateError, and once the hooks of the
\* failed tasks ran a failure-class status is recorded and archive_fail
\* was sent as often as a task failed.
C23_HookFindsJob ==
  /\ state_errors = <<>>
  /\ raised = {} =>
       /\ Len(archive_fail) = FailedTasks
       /\ FailedTasks > 0 => dst_archive_status \in ARCHIVER_FAILURE_STATUSES

\* The stat task of a was fanned out and has not finished.
StatOutstanding(a) == pc[a] \in {"stat_queued", "stat_checking"}

\* C24: archive_node has started, or an archive_addon or a copy request of
\* the job has happened, only when every stat_addon fanned out for the job
\* has finished.
C24_StatBarrier ==
  (\/ node_pc # "waiting"
   \/ archive_addon_sent # {}
   \/ \E a \in Addons : copy_requests[a] > 0 \/ a \in DOMAIN copy_message)
    => /\ archive_pc = "done"
       /\ \A a \in Targets : ~ StatOutstanding(a)

\* C24 witness: archive_node ran for a job of two targets, and a copy
\* request was made.
C24_Witness ==
  /\ Cardinality(Targets) = 2
  /\ node_pc = "done"
  /\ \E a \in Targets : copy_requests[a] = 1

\* C25: once a stat_addon task of the job has failed, archive_node is not
\* run: the size gate is not evaluated, no archive_addon is sent, no target
\* is SENDING or beyond and no copy request is made, whatever the other
\* stat tasks return.
C25_StatFailureShortCircuits ==
  (\E a \in Targets : pc[a] = "stat_failed") =>
    /\ node_pc = "waiting"
    /\ \A t \in raised : t.exc # "ArchiverSizeExceeded"
    /\ archive_addon_sent = {}
    /\ DOMAIN posted = {}
    /\ \A a \in Targets :
         /\ copy_requests[a] = 0
         /\ status_of(a) \in {ARCHIVER_PENDING, ARCHIVER_CHECKING,
                              ARCHIVER_NETWORK_ERROR}

\* C25 witness: one stat task failed, the other returned a file tree with
\* a file in it, and nothing is left to run.
C25_Witness ==
  \E a, b \in Targets :
    /\ pc[a] = "stat_failed"
    /\ pc[b] = "stat_done"
    /\ results[b].num_files > 0
    /\ raised = {}
    /\ ~ ENABLED Next

\* The addons whose source file tree has at least one file.
WithFiles == {a \in Targets : file_tree[a].num_files > 0}

\* C26: archive sends a stat_addon for each target addon and for no other;
\* archive_node sends an archive_addon for each target whose stat result
\* has a file and for no other; the copy endpoint gets at most one POST for
\* an addon, none for an addon without files, and exactly one for each
\* addon with files once the tasks archive_node sent have run.
C26_FanOut ==
  /\ \A a \in Addons :
       pc[a] # "idle" <=> (archive_pc = "done" /\ a \in Targets)
  /\ archive_addon_sent = IF node_pc = "done" THEN WithFiles ELSE {}
  /\ DOMAIN copy_message \subseteq archive_addon_sent
  /\ DOMAIN posted \subseteq DOMAIN copy_message
  /\ \A a \in Addons :
       /\ copy_requests[a] = IF a \in DOMAIN posted THEN 1 ELSE 0
       /\ a \notin WithFiles => copy_requests[a] = 0
  /\ (node_pc = "done" /\ ~ ENABLED Next) =>
       \A a \in WithFiles : copy_requests[a] = 1

\* C26 witness: a job of one addon with a file and one without came to
\* rest without a failure: one archive_addon, one POST.
C26_Witness ==
  /\ Cardinality(Targets) = 2
  /\ Cardinality(WithFiles) = 1
  /\ node_pc = "done"
  /\ ~ ENABLED Next
  /\ archive_fail = <<>>
  /\ \A a \in Targets : status_of(a) = ARCHIVER_SUCCESS
  /\ \E a \in WithFiles : copy_requests[a] = 1

\* C27: while stat_addon waits for the source file tree its target is
\* CHECKING, and while make_copy_request waits for the answer to its POST
\* its target is SENDING: each status was set before the network call.
C27_StatusBeforeNetworkCall ==
  \A a \in Targets :
    /\ pc[a] = "stat_checking" => status_of(a) = ARCHIVER_CHECKING
    /\ pc[a] = "copy_sending" =>
         /\ status_of(a) = ARCHIVER_SENDING
         /\ a \in DOMAIN posted

\* C27 witness: one POST is in flight while the copy task of another
\* addon, whose stat task has run, has not started.
C27_Witness ==
  \E a, b \in Targets :
    /\ pc[a] = "copy_sending"
    /\ status_of(a) = ARCHIVER_SENDING
    /\ pc[b] = "copy_queued"
    /\ status_of(b) = ARCHIVER_PENDING

InStatOrCopyTask ==
  {"stat_queued", "stat_checking", "copy_queued", "copy_sending",
   "copy_sent"}

\* C29: a step of the stat_addon or make_copy_request task of addon a,
\* whether it goes on, returns or raises, leaves the status and the errors
\* of every other target of the job as they were.
C29_PerTargetIsolation ==
  [][\A a \in Targets :
       (pc[a] \in InStatOrCopyTask /\ pc'[a] # pc[a]) =>
         \A b \in Targets \ {a} :
           /\ target_addons'[b].status = target_addons[b].status
           /\ target_addons'[b].errors = target_addons[b].errors]_vars

\* C29 witness: the copy of one addon failed and the copy of another
\* ended SUCCESS, each target with its own errors.
C29_Witness ==
  \E a, b \in Targets :
    /\ pc[a] = "copy_failed"
    /\ status_of(a) = ARCHIVER_FAILURE
    /\ Len(target_addons[a].errors) = 1
    /\ pc[b] = "copy_done"
    /\ status_of(b) = ARCHIVER_SUCCESS
    /\ target_addons[b].errors = <<>>

\* C30 (as stated, under SpecRedelivery): once a target is SUCCESS, no step
\* changes its status, and no step of a task of its addon sends
\* archive_callback again.
C30_SuccessTerminal ==
  [][\A a \in Targets :
       target_addons[a].status = ARCHIVER_SUCCESS =>
         /\ target_addons'[a].status = ARCHIVER_SUCCESS
         /\ pc'[a] # pc[a] => archive_callback' = archive_callback]_vars

\* C31 (as stated, under SpecFair): every job archive has started
\* eventually sends the completion signal or archive_fail.
C31_EventualDecision ==
  (archive_pc = "done") ~> (archive_callback > 0 \/ archive_fail # <<>>)

\* C32: archive_node raises ArchiverSizeExceeded only when the aggregate
\* disk usage is strictly greater than MAX_ARCHIVE_SIZE; with an aggregate
\* equal to the ceiling it raises nothing and sends archive_addon for the
\* addons with files.
C32_SizeGateBoundary ==
  /\ node_pc = "raised" => AggregateSize > MAX_ARCHIVE_SIZE
  /\ node_pc = "done" => AggregateSize <= MAX_ARCHIVE_SIZE
  /\ (node_pc # "waiting" /\ AggregateSize = MAX_ARCHIVE_SIZE) =>
       /\ node_pc = "done"
       /\ archive_addon_sent = WithFiles
       /\ \A t \in raised : t.exc # "ArchiverSizeExceeded"
       /\ \A i \in 1..Len(state_errors) :
            state_errors[i].exception # "ArchiverSizeExceeded"

\* C32 witness: a job of two addons with files whose aggregate is exactly
\* the ceiling went on to the copy phase.
C32_Witness ==
  /\ AggregateSize = MAX_ARCHIVE_SIZE
  /\ Cardinality(WithFiles) = 2
  /\ node_pc = "done"
  /\ \E a \in Targets : copy_requests[a] = 1

\* C33: the step in which make_copy_request takes the response for a
\* failure, marks its target FAILURE and raises, sends no archive_callback;
\* the task sends it in the step it returns in, after 200, 201 or 202.
C33_NoCallbackAfterFailure ==
  [][\A a \in Targets :
       pc[a] = "copy_sent" =>
         /\ pc'[a] = "copy_failed" =>
              /\ res[a].status_code \notin {200, 201, 202}
              /\ target_addons'[a].status = ARCHIVER_FAILURE
              /\ archive_callback' = archive_callback
         /\ pc'[a] = "copy_done" =>
              /\ res[a].status_code \in {200, 201, 202}
              /\ archive_callback' = archive_callback + 1]_vars

\* C33 witness: the only copy task of a job was answered 500, its hook
\* ran, and no completion signal was sent.
C33_Witness ==
  /\ Cardinality(WithFiles) = 1
  /\ \E a \in WithFiles :
       /\ pc[a] = "copy_failed"
       /\ res[a].status_code = 500
       /\ HookRan(a)
  /\ archive_callback = 0
  /\ archive_fail # <<>>

\* The step is a call of set_published with that argument.
SetPublishedCalled(published) ==
  /\ call'.op = "set_published"
  /\ call'.published = published

C35_PublishAllOrNothing ==
  [][(SetPublishedCalled(TRUE) /\ call'.exc # "none") =>
       /\ preprint'.is_published = preprint.is_published
       /\ preprint'.date_published = preprint.date_published
       /\ preprint'.is_public = preprint.is_public
       /\ preprint'.machine_state = preprint.machine_state]_vars

\* C36 (under SpecPreprint): whatever set_permissions calls with validation
\* are made, the admin group is never empty, and giving the only admin
\* another permission than admin raises PreprintStateError and leaves the
\* groups as they were.
C36_AdminGroupNeverEmpty ==
  [][/\ groups'["admin"] # {}
     /\ (/\ call'.op = "set_permissions"
         /\ groups["admin"] = {call'.user}
         /\ call'.permissions # "admin") =>
          /\ call'.exc = "PreprintStateError"
          /\ groups' = groups]_vars

\* C36 witness: a second admin was lowered to write, and then the attempt
\* to lower the only admin left raised.
C36_Witness ==
  /\ Cardinality(groups["admin"]) = 1
  /\ groups["write"] # {}
  /\ call.op = "set_permissions"
  /\ call.exc = "PreprintStateError"
  /\ call.user \in groups["admin"]
====
